---- MODULE Spec2Model ----
(***************************************************************************)
(* Cost-input screen of the roofing estimator (CostInputScreen.tsx): the   *)
(* itemized breakdown getMicroBreakdown, the grand total calculateTotal,   *)
(* and the handlers that load a project from local storage and save the    *)
(* breakdown back to it.                                                   *)
(*                                                                         *)
(* Numbers.  A JavaScript number that may be fractional is a reduced       *)
(* rational [n |-> Int, d |-> positive Int]; a number the code has passed  *)
(* through Math.round or Math.ceil is a plain integer.  The inputs are     *)
(* dyadic (halves, quarters), so the IEEE products and quotients the code  *)
(* forms are the exact rational ones on every input of the model.          *)
(* A text field is a sequence of one-character strings.                    *)
(***************************************************************************)
EXTENDS Integers, Sequences, FiniteSets, TLC

VARIABLES
    selectedMaterial,   \* useState<string>("three-tab")
    materialPrices,     \* useState<Record<string, number>>: id -> price
    roofSquares,        \* useState<number>(0)
    laborRate,          \* useState(""): text
    laborHours,         \* useState(""): text
    additionalCosts,    \* useState(""): text
    pc,                 \* where the screen is: "mounted", "ready", ...
    closure,            \* the render's state captured by a running handlePreview
    storage,            \* AsyncStorage "roofmaster_projects": sequence of records
    loaded,             \* loadProjectData of this mount has run
    edits,              \* number of user inputs so far
    result,             \* outcome of the last computation of the estimator
    users,              \* server database, table users
    projects,           \* server database, table projects
    calls               \* the requests the server has received

vars == << selectedMaterial, materialPrices, roofSquares, laborRate,
           laborHours, additionalCosts, pc, closure, storage, loaded, edits,
           result, users, projects, calls >>

serverVars == << users, projects, calls >>

screenVars == << selectedMaterial, materialPrices, roofSquares, laborRate,
                 laborHours, additionalCosts >>

----------------------------------------------------------------------------
(* Bounds *)

MaxSquares == 20

MaxEdits == 2

\* number of requests the server receives
MaxCalls == 2

\* largest roofSquares of the ridge cap study
MaxRidgeSquares == 45

----------------------------------------------------------------------------
(* Numbers *)

Abs(x) == IF x < 0 THEN -x ELSE x

\* the greatest common divisor of a >= 0 and b > 0
GCD(a, b) ==
    CHOOSE g \in 1..b :
        /\ a % g = 0 /\ b % g = 0
        /\ \A h \in (g + 1)..b : a % h # 0 \/ b % h # 0

\* the reduced rational n/d, d > 0
Rat(n, d) ==
    LET g == GCD(Abs(n), d)
    IN  [n |-> n \div g, d |-> d \div g]

RatI(i) == [n |-> i, d |-> 1]

RMul(a, b) == Rat(a.n * b.n, a.d * b.d)

RIsInt(a) == a.d = 1

RLeq(a, b) == a.n * b.d <= b.n * a.d

RIsZero(a) == a.n = 0

\* Math.max(i, a) for an integer i
RMaxI(i, a) == IF RLeq(a, RatI(i)) THEN RatI(i) ELSE a

\* Math.ceil(n / d)
CeilDiv(n, d) == -((-n) \div d)

\* Math.round(n / d): the nearest integer, a half rounded towards +infinity
RoundDiv(n, d) == (2 * n + d) \div (2 * d)

\* Math.round(a)
Round(a) == RoundDiv(a.n, a.d)

\* Math.round(i) of an integer-valued product
RoundI(i) == Round(RatI(i))

\* k * b >= a * Math.sqrt(x), for k, a, b, x >= 0
ReachesSqrt(k, a, b, x) == (k * b) * (k * b) * x.d >= a * a * x.n

\* Math.ceil(Math.sqrt(x) * a / b) for x >= 0: the least k with k*b >= a*sqrt(x)
CeilSqrtMul(x, a, b) ==
    CHOOSE k \in 0..(a * a * x.n + 1) :
        /\ ReachesSqrt(k, a, b, x)
        /\ k = 0 \/ ~ReachesSqrt(k - 1, a, b, x)

----------------------------------------------------------------------------
(* Text fields *)

Digits == <<"0", "1", "2", "3", "4", "5", "6", "7", "8", "9">>

IsDigit(c) == \E i \in 1..10 : Digits[i] = c

DigitVal(c) == (CHOOSE i \in 1..10 : Digits[i] = c) - 1

Pow10(k) ==
    LET p[j \in 0..k] == IF j = 0 THEN 1 ELSE 10 * p[j - 1]
    IN  p[k]

\* length of the run of digits of t that starts at position i
DigitRun(t, i) ==
    CHOOSE k \in 0..Len(t) :
        /\ \A j \in i..(i + k - 1) : j <= Len(t) /\ IsDigit(t[j])
        /\ i + k > Len(t) \/ ~IsDigit(t[i + k])

\* value of the k digits of t that start at position i
DigitsVal(t, i, k) ==
    LET v[j \in 0..k] ==
            IF j = 0 THEN 0 ELSE 10 * v[j - 1] + DigitVal(t[i + j - 1])
    IN  v[k]

\* parseFloat(t): an optional sign, digits, an optional point and digits; the
\* longest such prefix is the number, and there is none (NaN) without a digit
\* the three steps below are parseFloat's scan: the digits after the point,
\* the value of the digits, and the sign
FractionRun(t, dot) ==
    IF dot <= Len(t) /\ t[dot] = "." THEN DigitRun(t, dot + 1) ELSE 0

Magnitude(t, start, intLen, fracLen) ==
    Rat(DigitsVal(t, start, intLen) * Pow10(fracLen)
          + DigitsVal(t, start + intLen + 1, fracLen),
        Pow10(fracLen))

ParseDigits(t, start, intLen, fracLen) ==
    IF intLen + fracLen = 0 THEN [nan |-> TRUE, val |-> RatI(0)]
    ELSE [nan |-> FALSE,
          val |-> IF start = 2 /\ t[1] = "-"
                  THEN RMul(RatI(-1), Magnitude(t, start, intLen, fracLen))
                  ELSE Magnitude(t, start, intLen, fracLen)]

ParseFrom(t, start, intLen) ==
    ParseDigits(t, start, intLen, FractionRun(t, start + intLen))

parseFloat(t) ==
    LET start == IF Len(t) >= 1 /\ t[1] \in {"-", "+"} THEN 2 ELSE 1
    IN  ParseFrom(t, start, DigitRun(t, start))

\* x || 0 for a parsed number x
NumOrZero(parsed) == IF parsed.nan THEN RatI(0) ELSE parsed.val

\* parseFloat(t) || 0
ParseOrZero(t) == NumOrZero(parseFloat(t))

\* the decimal digits of the integer i >= 0
IntDigits(i) ==
    LET n == CHOOSE k \in 1..10 : i < Pow10(k)
    IN  [j \in 1..n |-> Digits[((i \div Pow10(n - j)) % 10) + 1]]

\* the decimal digits of rem/d, rem < d, d dividing a power of ten
FracDigits(rem, d) ==
    LET n == CHOOSE k \in 0..9 : (rem * Pow10(k)) % d = 0
    IN  [j \in 1..n |-> Digits[(((rem * Pow10(j)) \div d) % 10) + 1]]

\* Number.prototype.toString() of a number with a finite decimal expansion
toString(a) ==
    LET m    == Abs(a.n)
        sign == IF a.n < 0 THEN << "-" >> ELSE << >>
        frac == FracDigits(m % a.d, a.d)
    IN  sign \o IntDigits(m \div a.d)
             \o (IF frac = << >> THEN << >> ELSE << "." >> \o frac)

----------------------------------------------------------------------------
(* Material catalog *)

MaterialIds == {"three-tab", "architectural", "metal-pbr", "standing-seam"}

\* MATERIAL_TYPES[].basePrice
BasePrice ==
    [m \in MaterialIds |->
        CASE m = "three-tab"     -> 450
          [] m = "architectural" -> 500
          [] m = "metal-pbr"     -> 800
          [] m = "standing-seam" -> 1000]

\* initial value of the materialPrices state
InitialPrices == [m \in MaterialIds |-> BasePrice[m]]

\* Number || 0
OrZero(x) == IF x = 0 THEN 0 ELSE x

\* variant: the price of the first catalog entry, whatever is selected
SelectedMaterialPrice_FirstEntry(sel, prices) == OrZero(prices["three-tab"])

\* materialPrices[selectedMaterial] || 0; a missing key reads as undefined
SelectedMaterialPrice(sel, prices) ==
    IF sel \in DOMAIN prices THEN OrZero(prices[sel]) ELSE 0

----------------------------------------------------------------------------
(* The estimator *)

underlaymentCostPerRoll == 45
iceShieldCostPerRoll == 85
dripEdgeCostPerPiece == 8
starterCostPerPiece == 12
ridgeCapCostPerBundle == 55
nailCostPerPound == 3
ventCostEach == 25
flashingCostPerPiece == 15

\* the state one render of the screen closes over
Screen == [selectedMaterial |-> selectedMaterial,
           materialPrices   |-> materialPrices,
           roofSquares      |-> roofSquares,
           laborRate        |-> laborRate,
           laborHours       |-> laborHours,
           additionalCosts  |-> additionalCosts]

getSelectedMaterialPrice(s) ==
    SelectedMaterialPrice(s.selectedMaterial, s.materialPrices)

calculateLaborCost_RoundedFactors(s) ==
    RatI(Round(ParseOrZero(s.laborRate)) * Round(ParseOrZero(s.laborHours)))

calculateLaborCost(s) ==
    RMul(ParseOrZero(s.laborRate), ParseOrZero(s.laborHours))

\* roofSquares || 1
SquaresOrOne(sq) == IF RIsZero(sq) THEN RatI(1) ELSE sq

\* variant: the metal panels are counted with the four-bundle class
BundlesPerSquare_MetalFour(material) ==
    IF material \in {"architectural", "standing-seam", "metal-pbr"} THEN 4 ELSE 3

\* variant: every material is taken to come three bundles to the square
BundlesPerSquare_AllThree(material) == 3

BundlesPerSquare(material) ==
    IF material = "architectural" \/ material = "standing-seam" THEN 4 ELSE 3

\* Math.max(1, squares * bundlesPerSquare)
ShingleBundles(squares, bps) == RMaxI(1, RMul(squares, RatI(bps)))

\* variant: the per-square share is not divided among the bundles
ShingleCostPerBundle_PerSquare(price, bps) ==
    IF bps > 0 THEN RoundDiv(price * 62, 100) ELSE 0

\* Math.round(pricePerSquare * 0.62 / bundlesPerSquare)
ShingleCostPerBundle(price, bps) ==
    IF bps > 0 THEN RoundDiv(price * 62, 100 * bps) ELSE 0

\* variant: the operands of the division are swapped
UnderlaymentRolls_Swapped(squares) == CeilDiv(3 * squares.d, squares.n)

\* Math.ceil(squares / 3)
UnderlaymentRolls(squares) == CeilDiv(squares.n, squares.d * 3)

\* Math.ceil(squares * 0.15)
IceShieldRolls_Floor(squares) == (squares.n * 15) \div (squares.d * 100)

IceShieldRolls(squares) == CeilDiv(squares.n * 15, squares.d * 100)

\* Math.ceil(Math.sqrt(squares * 100) * 4 / 10)
DripEdgePieces_OneSide(squares) ==
    CeilSqrtMul([n |-> squares.n * 100, d |-> squares.d], 1, 10)

DripEdgePieces(squares) ==
    CeilSqrtMul([n |-> squares.n * 100, d |-> squares.d], 4, 10)

\* Math.ceil(Math.sqrt(squares * 100) * 0.4 / 25)
RidgeCapBundles_Perimeter(squares) ==
    CeilSqrtMul([n |-> squares.n * 100, d |-> squares.d], 4, 25)

RidgeCapBundles(squares) ==
    CeilSqrtMul([n |-> squares.n * 100, d |-> squares.d], 2, 125)

NailPounds_RoundedUp(squares) == RatI(CeilDiv(squares.n * 2, squares.d))

NailPounds(squares) == RMul(squares, RatI(2))

\* Math.ceil(squares / 1.5)
VentCount(squares) == CeilDiv(squares.n * 2, squares.d * 3)

\* Math.ceil(squares * 0.3)
FlashingPieces(squares) == CeilDiv(squares.n * 3, squares.d * 10)

\* variant: the waste squares are rounded down
WasteSquares_Floor(squares) == (squares.n * 12) \div (squares.d * 100)

\* Math.ceil(squares * 0.12)
WasteSquares(squares) == CeilDiv(squares.n * 12, squares.d * 100)

\* variant: the unit cost is taken for the line total
LineTotalI_UnitCost(quantity, unitCost) == unitCost

\* Math.round(quantity * unitCost) for a whole quantity
LineTotalI(quantity, unitCost) == RoundI(quantity * unitCost)

\* Math.round(quantity * unitCost) for a quantity that may be fractional
LineTotal(quantity, unitCost) == Round(RMul(quantity, RatI(unitCost)))

getMicroBreakdown(s) ==
    LET laborTotal == calculateLaborCost(s)
        additional == ParseOrZero(s.additionalCosts)
        pricePerSquare == OrZero(getSelectedMaterialPrice(s))
        squares == SquaresOrOne(s.roofSquares)
        bundlesPerSquare == BundlesPerSquare(s.selectedMaterial)
        shingleBundles == ShingleBundles(squares, bundlesPerSquare)
        shingleCostPerBundle == ShingleCostPerBundle(pricePerSquare, bundlesPerSquare)
        underlaymentRolls == UnderlaymentRolls(squares)
        iceShieldRolls == IceShieldRolls(squares)
        dripEdgePieces == DripEdgePieces(squares)
        starterStripPieces == dripEdgePieces
        ridgeCapBundles == RidgeCapBundles(squares)
        nailPounds == NailPounds(squares)
        ventCount == VentCount(squares)
        flashingPieces == FlashingPieces(squares)
        wasteSquares == WasteSquares(squares)
        wasteBundles == wasteSquares * bundlesPerSquare
    IN  [ shingleBundles |-> shingleBundles,
          shingleCostPerBundle |-> shingleCostPerBundle,
          shingleTotal |-> LineTotal(shingleBundles, shingleCostPerBundle),
          wasteBundles |-> wasteBundles,
          wasteTotal |-> LineTotalI(wasteBundles, shingleCostPerBundle),
          underlaymentRolls |-> underlaymentRolls,
          underlaymentCostPerRoll |-> underlaymentCostPerRoll,
          underlaymentTotal |-> LineTotalI(underlaymentRolls, underlaymentCostPerRoll),
          iceShieldRolls |-> iceShieldRolls,
          iceShieldCostPerRoll |-> iceShieldCostPerRoll,
          iceShieldTotal |-> LineTotalI(iceShieldRolls, iceShieldCostPerRoll),
          dripEdgePieces |-> dripEdgePieces,
          dripEdgeCostPerPiece |-> dripEdgeCostPerPiece,
          dripEdgeTotal |-> LineTotalI(dripEdgePieces, dripEdgeCostPerPiece),
          starterStripPieces |-> starterStripPieces,
          starterCostPerPiece |-> starterCostPerPiece,
          starterTotal |-> LineTotalI(starterStripPieces, starterCostPerPiece),
          ridgeCapBundles |-> ridgeCapBundles,
          ridgeCapCostPerBundle |-> ridgeCapCostPerBundle,
          ridgeCapTotal |-> LineTotalI(ridgeCapBundles, ridgeCapCostPerBundle),
          nailPounds |-> nailPounds,
          nailCostPerPound |-> nailCostPerPound,
          nailTotal |-> LineTotal(nailPounds, nailCostPerPound),
          ventCount |-> ventCount,
          ventCostEach |-> ventCostEach,
          ventTotal |-> LineTotalI(ventCount, ventCostEach),
          flashingPieces |-> flashingPieces,
          flashingCostPerPiece |-> flashingCostPerPiece,
          flashingTotal |-> LineTotalI(flashingPieces, flashingCostPerPiece),
          labor |-> Round(laborTotal),
          laborRate |-> ParseOrZero(s.laborRate),
          laborHours |-> ParseOrZero(s.laborHours),
          additional |-> Round(additional),
          shingles |-> LineTotal(shingleBundles, shingleCostPerBundle),
          waste |-> LineTotalI(wasteBundles, shingleCostPerBundle),
          underlayment |-> LineTotalI(underlaymentRolls, underlaymentCostPerRoll),
          flashing |-> LineTotalI(flashingPieces, flashingCostPerPiece),
          nails |-> LineTotal(nailPounds, nailCostPerPound),
          venting |-> LineTotalI(ventCount, ventCostEach),
          ridgeCap |-> LineTotalI(ridgeCapBundles, ridgeCapCostPerBundle) ]

\* variant: the material total is summed over the legacy field set, which has
\* no ice shield, drip edge or starter strip
calculateTotal_Legacy(s) ==
    LET legacyTotal(b) ==
            OrZero(b.shingles) + OrZero(b.waste) + OrZero(b.underlayment)
          + OrZero(b.ridgeCap) + OrZero(b.flashing) + OrZero(b.venting)
          + OrZero(b.nails) + OrZero(b.labor) + OrZero(b.additional)
    IN  legacyTotal(getMicroBreakdown(s))

\* variant: the starter strip is left out of the material total
TotalOf_WithoutStarter(b) ==
    LET materialTotal ==
            OrZero(b.shingleTotal) + OrZero(b.wasteTotal) + OrZero(b.underlaymentTotal)
          + OrZero(b.iceShieldTotal) + OrZero(b.dripEdgeTotal)
          + OrZero(b.ridgeCapTotal) + OrZero(b.flashingTotal) + OrZero(b.ventTotal)
          + OrZero(b.nailTotal)
    IN  materialTotal + OrZero(b.labor) + OrZero(b.additional)

\* the sum calculateTotal returns for the breakdown b
TotalOf(b) ==
    LET materialTotal ==
            OrZero(b.shingleTotal) + OrZero(b.wasteTotal) + OrZero(b.underlaymentTotal)
          + OrZero(b.iceShieldTotal) + OrZero(b.dripEdgeTotal) + OrZero(b.starterTotal)
          + OrZero(b.ridgeCapTotal) + OrZero(b.flashingTotal) + OrZero(b.ventTotal)
          + OrZero(b.nailTotal)
    IN  materialTotal + OrZero(b.labor) + OrZero(b.additional)

calculateTotal(s) == TotalOf(getMicroBreakdown(s))

----------------------------------------------------------------------------
(* Inputs *)

\* what a user can leave in a text field
TextInputs ==
    { << >>, << "-", "5" >>, << "2", "0", "0" >>, << "1", "2", ".", "5" >> }

\* slider positions for a material: the low end of the track and half a
\* currency unit below the high end
SliderValues(m) ==
    { [n |-> BasePrice[m], d |-> 2], [n |-> 4 * BasePrice[m] - 1, d |-> 2] }

\* roofSquares of the projects of the new-project flow
ProjectSquares == {1, MaxSquares}

----------------------------------------------------------------------------
(* Local storage *)

projectId == "p1"

\* A stored project.  A field the record does not have yet (undefined) is
\* held as the falsy value of its type: "" for selectedMaterial, 0 for a
\* number, << >> for microBreakdown; the code only tests these for truth.
NewProject(id, squares) ==
    [ id |-> id,
      address |-> "a",
      roofArea |-> squares * 100,
      roofSquares |-> RatI(squares),
      selectedMaterial |-> "",
      materialPricePerSquare |-> 0,
      microBreakdown |-> << >>,
      laborRate |-> RatI(0),
      laborHours |-> RatI(0),
      additionalCosts |-> RatI(0),
      estimateTotal |-> 0,
      status |-> "draft" ]

\* projects.findIndex(p => p.id === id), 0 for -1
FindIndex(stored, id) ==
    IF \E i \in 1..Len(stored) : stored[i].id = id
    THEN CHOOSE i \in 1..Len(stored) :
            /\ stored[i].id = id
            /\ \A j \in 1..(i - 1) : stored[j].id # id
    ELSE 0

----------------------------------------------------------------------------
(* The server: database tables and requests *)

Calls == 1..MaxCalls

\* table users: u1 is on the free tier, u2 has a subscription
InitialUsers ==
    [ u \in {"u1", "u2"} |->
        [ aiRequestsUsed |-> 0,
          subscriptionStatus |-> IF u = "u2" THEN "active" ELSE "free" ] ]

\* table projects: p1 belongs to u1; updatedAt counts the updates
InitialProjects ==
    [ i \in {"p1"} |-> [ userId |-> "u1", address |-> "a", updatedAt |-> 0 ] ]

\* a request that has not arrived; status 0 stands for no response yet, and
\* body, local and reply hold one value or none
IdleCall ==
    [ route |-> "none", pc |-> "idle", token |-> "", id |-> "",
      body |-> << >>, local |-> << >>, status |-> 0, reply |-> << >> ]

ServerIdle ==
    /\ users = InitialUsers
    /\ projects = InitialProjects
    /\ calls = [c \in Calls |-> IdleCall]

\* the response of a handler: res.status(status).json(reply)
Respond(call, status, reply) ==
    [ call EXCEPT !.pc = "done", !.status = status, !.reply = reply ]

----------------------------------------------------------------------------
(* The estimate as the preview screen and the PDF generator show it *)

Row(label, amount) == [ label |-> label, amount |-> amount ]

\* a || b for two amounts
Either(a, b) == IF a # 0 THEN a ELSE b

\* the line items of the preview screen for a stored project, top to bottom
PreviewRows(project) ==
    IF project.microBreakdown = << >> THEN << >>
    ELSE LET b == project.microBreakdown[1]
         IN  << Row("Shingles/Panels", Either(b.shingleTotal, b.shingles)),
                Row("Waste Factor (12%)", Either(b.wasteTotal, b.waste)),
                Row("Underlayment", Either(b.underlaymentTotal, b.underlayment)) >>
             \o (IF b.iceShieldTotal # 0
                 THEN << Row("Ice & Water Shield", b.iceShieldTotal) >> ELSE << >>)
             \o (IF b.dripEdgeTotal # 0
                 THEN << Row("Drip Edge", b.dripEdgeTotal) >> ELSE << >>)
             \o (IF b.starterTotal # 0
                 THEN << Row("Starter Strip", b.starterTotal) >> ELSE << >>)
             \o << Row("Ridge Cap", Either(b.ridgeCapTotal, b.ridgeCap)),
                   Row("Flashing", Either(b.flashingTotal, b.flashing)),
                   Row("Roof Vents", Either(b.ventTotal, b.venting)),
                   Row("Nails/Fasteners", Either(b.nailTotal, b.nails)),
                   Row("Labor", OrZero(b.labor)),
                   Row("Additional Costs", OrZero(b.additional)) >>

\* the rows of the cost table of POST /api/generate-pdf; the labor row's
\* label goes on with the hours and the rate, which are left out here
PdfRows(project) ==
    IF project.microBreakdown = << >> THEN << >>
    ELSE LET breakdown == project.microBreakdown[1]
         IN  << Row("Shingles/Panels", OrZero(breakdown.shingles)),
                Row("Waste Factor (12%)", OrZero(breakdown.waste)),
                Row("Underlayment", OrZero(breakdown.underlayment)),
                Row("Flashing", OrZero(breakdown.flashing)),
                Row("Nails/Fasteners", OrZero(breakdown.nails)),
                Row("Venting", OrZero(breakdown.venting)),
                Row("Ridge Cap", OrZero(breakdown.ridgeCap)),
                Row("Labor", OrZero(breakdown.labor)),
                Row("Additional Costs", OrZero(breakdown.additional)) >>

----------------------------------------------------------------------------
(* The screen *)

\* no computation yet
NoResult == [ kind |-> "none" ]

\* what one render shows: the itemized breakdown and the total
Render(s) ==
    [ kind |-> "breakdown",
      breakdown |-> getMicroBreakdown(s),
      total |-> calculateTotal(s) ]

\* the useState initial values
MountState ==
    /\ selectedMaterial = "three-tab"
    /\ materialPrices = InitialPrices
    /\ roofSquares = RatI(0)
    /\ laborRate = << >>
    /\ laborHours = << >>
    /\ additionalCosts = << >>

Init ==
    /\ MountState
    /\ pc = "input"
    /\ loaded = FALSE
    /\ closure = << >>
    /\ edits = 0
    /\ \E sq \in ProjectSquares :
          storage = << NewProject(projectId, sq), NewProject("p2", 1) >>
    /\ result = NoResult
    /\ ServerIdle

\* prev => ({...prev, [key]: price})
WithPrice_NoSpread(prices, key, price) == [k \in {key} |-> price]

WithPrice(prices, key, price) ==
    [k \in (DOMAIN prices) \cup {key} |-> IF k = key THEN price ELSE prices[k]]

loadProjectData ==
    /\ pc = "input"
    /\ ~loaded
    /\ loaded' = TRUE
    /\ LET index == FindIndex(storage, projectId)
       IN  IF index = 0
           THEN UNCHANGED screenVars
           ELSE LET project == storage[index]
                    squares == IF ~RIsZero(project.roofSquares)
                               THEN project.roofSquares
                               ELSE RatI(CeilDiv(project.roofArea, 100))
                IN  /\ roofSquares' = squares
                    /\ selectedMaterial' =
                          IF project.selectedMaterial # ""
                          THEN project.selectedMaterial ELSE selectedMaterial
                    /\ materialPrices' =
                          IF project.materialPricePerSquare # 0
                          THEN WithPrice(materialPrices,
                                         IF project.selectedMaterial # ""
                                         THEN project.selectedMaterial
                                         ELSE "three-tab",
                                         project.materialPricePerSquare)
                          ELSE materialPrices
                    /\ laborRate' =
                          IF ~RIsZero(project.laborRate)
                          THEN toString(project.laborRate) ELSE laborRate
                    /\ laborHours' =
                          IF ~RIsZero(project.laborHours)
                          THEN toString(project.laborHours) ELSE laborHours
                    /\ additionalCosts' =
                          IF ~RIsZero(project.additionalCosts)
                          THEN toString(project.additionalCosts)
                          ELSE additionalCosts
    /\ UNCHANGED << pc, closure, storage, edits, result >>
    /\ UNCHANGED serverVars

CanEdit == pc \in {"input", "submitting"} /\ edits < MaxEdits

setSelectedMaterial(m) ==
    /\ CanEdit
    /\ selectedMaterial' = m
    /\ edits' = edits + 1
    /\ UNCHANGED << materialPrices, roofSquares, laborRate, laborHours,
                    additionalCosts, pc, closure, storage, loaded, result >>
    /\ UNCHANGED serverVars

updateMaterialPrice(materialId, price) ==
    /\ CanEdit
    /\ materialPrices' = WithPrice(materialPrices, materialId, Round(price))
    /\ edits' = edits + 1
    /\ UNCHANGED << selectedMaterial, roofSquares, laborRate, laborHours,
                    additionalCosts, pc, closure, storage, loaded, result >>
    /\ UNCHANGED serverVars

\* the slider is drawn for the selected material when it is a catalog entry
Slide ==
    /\ selectedMaterial \in MaterialIds
    /\ \E v \in SliderValues(selectedMaterial) :
          updateMaterialPrice(selectedMaterial, v)

setLaborRate(t) ==
    /\ CanEdit
    /\ laborRate' = t
    /\ edits' = edits + 1
    /\ UNCHANGED << selectedMaterial, materialPrices, roofSquares, laborHours,
                    additionalCosts, pc, closure, storage, loaded, result >>
    /\ UNCHANGED serverVars

setLaborHours(t) ==
    /\ CanEdit
    /\ laborHours' = t
    /\ edits' = edits + 1
    /\ UNCHANGED << selectedMaterial, materialPrices, roofSquares, laborRate,
                    additionalCosts, pc, closure, storage, loaded, result >>
    /\ UNCHANGED serverVars

setAdditionalCosts(t) ==
    /\ CanEdit
    /\ additionalCosts' = t
    /\ edits' = edits + 1
    /\ UNCHANGED << selectedMaterial, materialPrices, roofSquares, laborRate,
                    laborHours, pc, closure, storage, loaded, result >>
    /\ UNCHANGED serverVars

\* handlePreview up to its first await: setIsSubmitting(true); the handler
\* keeps the state of the render it was created in
handlePreviewPress ==
    /\ pc = "input"
    /\ pc' = "submitting"
    /\ closure' = << Screen >>
    /\ UNCHANGED << screenVars, storage, loaded, edits, result >>
    /\ UNCHANGED serverVars

\* variant: the catalog base price is stored instead of the adjusted price
SavedProject_BasePrice(old, c) ==
    [ old EXCEPT
        !.selectedMaterial = c.selectedMaterial,
        !.materialPricePerSquare = SelectedMaterialPrice(c.selectedMaterial, InitialPrices),
        !.roofSquares = c.roofSquares,
        !.microBreakdown = << getMicroBreakdown(c) >>,
        !.laborRate = ParseOrZero(c.laborRate),
        !.laborHours = ParseOrZero(c.laborHours),
        !.additionalCosts = ParseOrZero(c.additionalCosts),
        !.estimateTotal = calculateTotal(c) ]

\* the project record handlePreview writes for the render state c
SavedProject(old, c) ==
    [ old EXCEPT
        !.selectedMaterial = c.selectedMaterial,
        !.materialPricePerSquare = getSelectedMaterialPrice(c),
        !.roofSquares = c.roofSquares,
        !.microBreakdown = << getMicroBreakdown(c) >>,
        !.laborRate = ParseOrZero(c.laborRate),
        !.laborHours = ParseOrZero(c.laborHours),
        !.additionalCosts = ParseOrZero(c.additionalCosts),
        !.estimateTotal = calculateTotal(c) ]

\* handlePreview after getItem resolves: update the record, setItem, navigate
handlePreviewSave ==
    /\ pc = "submitting"
    /\ LET index == FindIndex(storage, projectId)
       IN  storage' =
              IF index = 0 THEN storage
              ELSE [storage EXCEPT ![index] = SavedProject(storage[index], closure[1])]
    /\ pc' = "preview"
    /\ closure' = << >>
    /\ UNCHANGED << screenVars, loaded, edits, result >>
    /\ UNCHANGED serverVars

\* back from the preview to the cost-input screen under it
GoBack ==
    /\ pc = "preview"
    /\ pc' = "input"
    /\ UNCHANGED << screenVars, closure, storage, loaded, edits, result >>
    /\ UNCHANGED serverVars

\* a new cost-input screen for the project: the project list opens one, and
\* the preview replaces itself by one, while the project has no estimate
Reopen ==
    /\ pc \in {"input", "preview"}
    /\ LET index == FindIndex(storage, projectId)
       IN  index # 0 /\ storage[index].estimateTotal <= 0
    /\ ~MountState \/ loaded
    /\ pc' = "input"
    /\ loaded' = FALSE
    /\ selectedMaterial' = "three-tab"
    /\ materialPrices' = InitialPrices
    /\ roofSquares' = RatI(0)
    /\ laborRate' = << >>
    /\ laborHours' = << >>
    /\ additionalCosts' = << >>
    /\ UNCHANGED << closure, storage, edits, result >>
    /\ UNCHANGED serverVars

Next ==
    \/ loadProjectData
    \/ \E m \in MaterialIds : setSelectedMaterial(m)
    \/ Slide
    \/ \E t \in TextInputs : setLaborRate(t)
    \/ \E t \in TextInputs : setLaborHours(t)
    \/ \E t \in TextInputs : setAdditionalCosts(t)
    \/ handlePreviewPress
    \/ handlePreviewSave
    \/ GoBack
    \/ Reopen

Spec == Init /\ [][Next]_vars

----------------------------------------------------------------------------
(* The preview screen's handleSave and the project list.  After the read of  *)
(* the stored projects resolves, handleSave changes the record and calls     *)
(* setItem in one run, as handlePreview does.                                *)

\* variant: the finalize flag is not looked at
SavedStatus_AlwaysCompleted(old, finalize) == [ old EXCEPT !.status = "completed" ]

\* { ...projects[index], status: finalize ? "completed" : "draft" }
SavedStatus(old, finalize) ==
    [ old EXCEPT !.status = IF finalize THEN "completed" ELSE "draft" ]

\* handleSave up to its first await; the preview shows its buttons for a
\* loaded project that is not redirected
handleSavePress(finalize) ==
    /\ pc = "preview"
    /\ LET index == FindIndex(storage, projectId)
       IN  /\ index # 0
           /\ storage[index].microBreakdown # << >>
           /\ storage[index].estimateTotal > 0
    /\ pc' = "saving"
    /\ closure' = << [ finalize |-> finalize ] >>
    /\ UNCHANGED << screenVars, storage, loaded, edits, result >>
    /\ UNCHANGED serverVars

\* handleSave after getItem resolves: set the status, setItem, and outside
\* guest mode POST the project to the server, which stores a row for the
\* signed-in user (synced) or fails; then the alert and popToTop
handleSaveWrite(synced) ==
    /\ pc = "saving"
    /\ LET index == FindIndex(storage, projectId)
       IN  /\ storage' =
                 IF index = 0 THEN storage
                 ELSE [ storage EXCEPT ![index] =
                          SavedStatus(storage[index], closure[1].finalize) ]
           /\ projects' =
                 IF synced /\ index # 0 /\ Cardinality(DOMAIN projects) <= MaxCalls
                 THEN LET id == "n" \o ToString(Cardinality(DOMAIN projects))
                      IN  [ i \in (DOMAIN projects) \cup { id } |->
                              IF i = id
                              THEN [ userId |-> "u1",
                                     address |-> storage[index].address,
                                     updatedAt |-> 0 ]
                              ELSE projects[i] ]
                 ELSE projects
    /\ pc' = "list"
    /\ closure' = << >>
    /\ UNCHANGED << screenVars, loaded, edits, result, users, calls >>

\* the project list: a project with an estimate opens in the preview, one
\* without opens a new cost-input screen
handleProjectPress ==
    /\ pc = "list"
    /\ LET index == FindIndex(storage, projectId)
       IN  /\ index # 0
           /\ IF storage[index].estimateTotal <= 0
              THEN /\ pc' = "input"
                   /\ loaded' = FALSE
                   /\ selectedMaterial' = "three-tab"
                   /\ materialPrices' = InitialPrices
                   /\ roofSquares' = RatI(0)
                   /\ laborRate' = << >>
                   /\ laborHours' = << >>
                   /\ additionalCosts' = << >>
              ELSE /\ pc' = "preview"
                   /\ UNCHANGED << screenVars, loaded >>
    /\ UNCHANGED << closure, storage, edits, result >>
    /\ UNCHANGED serverVars

\* the screen with the material and price inputs, the preview and the list
SaveNext ==
    \/ loadProjectData
    \/ \E m \in MaterialIds : setSelectedMaterial(m)
    \/ Slide
    \/ handlePreviewPress
    \/ handlePreviewSave
    \/ GoBack
    \/ \E finalize \in BOOLEAN : handleSavePress(finalize)
    \/ \E synced \in BOOLEAN : handleSaveWrite(synced)
    \/ handleProjectPress

SaveSpec == Init /\ [][SaveNext]_vars

(* The estimator as a function of its inputs: callers hand getMicroBreakdown *)
(* and calculateTotal any state, also one the screen does not get into.      *)

FnMaterials == MaterialIds \cup {"asphalt-deluxe"}

\* roofSquares in quarters, from 0 to MaxSquares
FnSquares == { Rat(k, 4) : k \in 0..(4 * MaxSquares) }

FnRates == { << >>, << "5", "0" >>, << "-", "5" >>, << "1", "2", ".", "5" >> }

FnHours == { << >>, << "4", "0" >>, << "-", "5" >>, << "1", "2", ".", "5" >> }

FnAdditional == { << >>, << "." >>, << "2", "0", "0" >>, << "1", "2", ".", "5" >> }

\* the price map with the selected material at its base price or adjusted
FnPrices(m) ==
    IF m \in MaterialIds
    THEN { InitialPrices, WithPrice(InitialPrices, m, RoundDiv(BasePrice[m], 2)) }
    ELSE { InitialPrices }

FnInit ==
    /\ selectedMaterial \in FnMaterials
    /\ materialPrices \in FnPrices(selectedMaterial)
    /\ roofSquares \in FnSquares
    /\ laborRate \in FnRates
    /\ laborHours \in FnHours
    /\ additionalCosts \in FnAdditional
    /\ pc = "fn"
    /\ loaded = TRUE
    /\ closure = << >>
    /\ storage = << >>
    /\ edits = 0
    /\ result = NoResult
    /\ ServerIdle

\* one call of getMicroBreakdown and calculateTotal
FnCompute ==
    /\ pc = "fn"
    /\ result.kind = "none"
    /\ result' = Render(Screen)
    /\ UNCHANGED << screenVars, pc, closure, storage, loaded, edits >>
    /\ UNCHANGED serverVars

FnSpec == FnInit /\ [][FnCompute]_vars

\* the same call again after roofSquares alone has grown, once
FnGrow ==
    /\ pc = "fn"
    /\ result.kind = "breakdown"
    /\ edits = 0
    /\ \E sq \in FnSquares :
          /\ ~RLeq(sq, roofSquares)
          /\ roofSquares' = sq
    /\ edits' = edits + 1
    /\ UNCHANGED << selectedMaterial, materialPrices, laborRate, laborHours,
                    additionalCosts, pc, closure, storage, loaded >>
    /\ result' = Render(Screen')
    /\ UNCHANGED serverVars

\* every material, price map and roofSquares of FnInit, with labor 50 x 40
\* and 200 of additional costs
MonoInit ==
    /\ FnInit
    /\ laborRate = << "5", "0" >>
    /\ laborHours = << "4", "0" >>
    /\ additionalCosts = << "2", "0", "0" >>

MonoNext == FnCompute \/ FnGrow

MonoSpec == MonoInit /\ [][MonoNext]_vars

\* the same call again after "architectural" has been selected in place of
\* "three-tab" and given the same price per square, once
FnSwitch ==
    /\ pc = "fn"
    /\ result.kind = "breakdown"
    /\ edits = 0
    /\ selectedMaterial = "three-tab"
    /\ selectedMaterial' = "architectural"
    /\ materialPrices' = WithPrice(materialPrices, "architectural",
                                   SelectedMaterialPrice(selectedMaterial, materialPrices))
    /\ edits' = edits + 1
    /\ UNCHANGED << roofSquares, laborRate, laborHours, additionalCosts, pc,
                    closure, storage, loaded >>
    /\ result' = Render(Screen')
    /\ UNCHANGED serverVars

SwitchInit ==
    /\ MonoInit
    /\ selectedMaterial = "three-tab"

SwitchNext == FnCompute \/ FnSwitch

SwitchSpec == SwitchInit /\ [][SwitchNext]_vars

\* the same call again on another roof, material and price, with the labor
\* and additional-cost texts as they are, once
FnRemeasure ==
    /\ pc = "fn"
    /\ result.kind = "breakdown"
    /\ edits = 0
    /\ \E m \in FnMaterials, sq \in { Rat(1, 4), RatI(MaxSquares) } :
          /\ selectedMaterial' = m
          /\ roofSquares' = sq
          /\ materialPrices' \in FnPrices(m)
    /\ edits' = edits + 1
    /\ UNCHANGED << laborRate, laborHours, additionalCosts, pc, closure,
                    storage, loaded >>
    /\ result' = Render(Screen')
    /\ UNCHANGED serverVars

\* every labor and additional-cost text of FnInit, on one square of
\* "three-tab" at its base price
LaborInit ==
    /\ FnInit
    /\ selectedMaterial = "three-tab"
    /\ materialPrices = InitialPrices
    /\ roofSquares = RatI(1)

LaborNext == FnCompute \/ FnRemeasure

LaborSpec == LaborInit /\ [][LaborNext]_vars

\* roofSquares in quarters, from 0 to MaxRidgeSquares
RidgeSquares == { Rat(k, 4) : k \in 0..(4 * MaxRidgeSquares) }

\* the catalog materials at their base prices, labor 50 x 40 and 200 of
\* additional costs, on roofs up to MaxRidgeSquares
RidgeInit ==
    /\ selectedMaterial \in MaterialIds
    /\ materialPrices = InitialPrices
    /\ roofSquares \in RidgeSquares
    /\ laborRate = << "5", "0" >>
    /\ laborHours = << "4", "0" >>
    /\ additionalCosts = << "2", "0", "0" >>
    /\ pc = "fn"
    /\ loaded = TRUE
    /\ closure = << >>
    /\ storage = << >>
    /\ edits = 0
    /\ result = NoResult
    /\ ServerIdle

RidgeSpec == RidgeInit /\ [][FnCompute]_vars

----------------------------------------------------------------------------
(* The server's request handlers.  A handler runs without interruption up   *)
(* to an await; what it awaits (a database query, the OpenAI reply) happens *)
(* in the step that resumes it, so the steps of different requests          *)
(* interleave at the awaits.                                                *)

\* the screens are not part of the server's behaviours
ServerInit ==
    /\ MountState
    /\ pc = "server"
    /\ loaded = FALSE
    /\ closure = << >>
    /\ storage = << >>
    /\ edits = 0
    /\ result = NoResult
    /\ ServerIdle

\* requests are numbered in the order of their arrival
Arrives(c) ==
    /\ calls[c].pc = "idle"
    /\ \A d \in 1..(c - 1) : calls[d].pc # "idle"

At(c, route, step) == calls[c].route = route /\ calls[c].pc = step

ServerFrame == UNCHANGED << screenVars, pc, closure, storage, loaded, edits, result >>

\* the estimate a client has stored for the render state of material m and
\* sq squares, at labor 50 x 40 and additional costs 200
EstimatedProject(m, sq) ==
    SavedProject(NewProject(projectId, sq),
                 [ selectedMaterial |-> m,
                   materialPrices   |-> InitialPrices,
                   roofSquares      |-> RatI(sq),
                   laborRate        |-> << "5", "0" >>,
                   laborHours       |-> << "4", "0" >>,
                   additionalCosts  |-> << "2", "0", "0" >> ])

\* request bodies of /api/generate-pdf: no project, a project without an
\* estimate, and estimated projects
PdfBodies ==
    { << >>, << NewProject(projectId, 1) >> }
      \cup { << EstimatedProject(m, sq) >> : m \in MaterialIds, sq \in ProjectSquares }

\* POST /api/generate-pdf: the handler has no await
generatePdf(c, body) ==
    /\ Arrives(c)
    /\ LET call == [ calls[c] EXCEPT !.route = "generate-pdf", !.body = body ]
       IN  calls' = [ calls EXCEPT ![c] =
                        IF body = << >>
                        THEN Respond(call, 400, << >>)
                        ELSE Respond(call, 200, << PdfRows(body[1]) >>) ]
    /\ UNCHANGED << users, projects >>
    /\ ServerFrame

PdfNext == \E c \in Calls, body \in PdfBodies : generatePdf(c, body)

PdfSpec == ServerInit /\ [][PdfNext]_vars

\* Authorization headers: none, "Bearer" with a token that does not verify,
\* and with valid tokens of u1, u2 and of u3, who is not in the table
Tokens == { "", "bad", "tok-u1", "tok-u2", "tok-u3" }

\* the userId of a token that verifies, "" for null
verifyToken(token) ==
    CASE token = "tok-u1" -> "u1"
      [] token = "tok-u2" -> "u2"
      [] token = "tok-u3" -> "u3"
      [] OTHER -> ""

FREE_AI_REQUESTS == 1

Max(a, b) == IF a >= b THEN a ELSE b

\* POST /api/ai-assistant up to await storage.getUser; the OpenAI key is
\* configured
aiAssistant(c, token, message) ==
    /\ Arrives(c)
    /\ LET call == [ calls[c] EXCEPT !.route = "ai-assistant", !.token = token,
                                     !.body = << message >> ]
           userId == verifyToken(token)
       IN  calls' = [ calls EXCEPT ![c] =
                        IF message = "" THEN Respond(call, 400, << >>)
                        ELSE IF userId = ""
                        THEN Respond(call, 401, << "requiresAuth" >>)
                        ELSE [ call EXCEPT !.pc = "getUser",
                                           !.local = << [ userId |-> userId ] >> ] ]
    /\ UNCHANGED << users, projects >>
    /\ ServerFrame

\* storage.getUser resolves: the free-request check, then the call of OpenAI
aiGetUser(c) ==
    /\ At(c, "ai-assistant", "getUser")
    /\ LET userId == calls[c].local[1].userId
       IN  calls' = [ calls EXCEPT ![c] =
                        IF userId \notin DOMAIN users
                        THEN Respond(calls[c], 401, << "requiresAuth" >>)
                        ELSE LET user == users[userId]
                                 aiRequestsUsed == OrZero(user.aiRequestsUsed)
                                 hasSubscription ==
                                     user.subscriptionStatus \in {"active", "pro"}
                             IN  IF ~hasSubscription /\ aiRequestsUsed >= FREE_AI_REQUESTS
                                 THEN Respond(calls[c], 403, << "requiresSubscription" >>)
                                 ELSE [ calls[c] EXCEPT
                                          !.pc = "fetch",
                                          !.local = << [ userId |-> userId,
                                                         aiRequestsUsed |-> aiRequestsUsed,
                                                         hasSubscription |-> hasSubscription ] >> ] ]
    /\ UNCHANGED << users, projects >>
    /\ ServerFrame

\* the reply of OpenAI arrives, ok or not
aiFetch(c, ok) ==
    /\ At(c, "ai-assistant", "fetch")
    /\ LET l == calls[c].local[1]
       IN  calls' = [ calls EXCEPT ![c] =
                        IF ~ok THEN Respond(calls[c], 500, << >>)
                        ELSE IF ~l.hasSubscription
                        THEN [ calls[c] EXCEPT !.pc = "incrementRead" ]
                        ELSE Respond(calls[c], 200, << "success" >>) ]
    /\ UNCHANGED << users, projects >>
    /\ ServerFrame

\* incrementAiRequests: getUser resolves, newCount is formed
aiIncrementRead(c) ==
    /\ At(c, "ai-assistant", "incrementRead")
    /\ LET l == calls[c].local[1]
           currentCount == IF l.userId \in DOMAIN users
                           THEN OrZero(users[l.userId].aiRequestsUsed) ELSE 0
       IN  calls' = [ calls EXCEPT ![c] =
                        [ calls[c] EXCEPT
                            !.pc = "incrementWrite",
                            !.local = << [ userId |-> l.userId,
                                           aiRequestsUsed |-> l.aiRequestsUsed,
                                           hasSubscription |-> l.hasSubscription,
                                           newCount |-> currentCount + 1 ] >> ] ]
    /\ UNCHANGED << users, projects >>
    /\ ServerFrame

\* incrementAiRequests: the update runs, then the handler answers
aiIncrementWrite(c) ==
    /\ At(c, "ai-assistant", "incrementWrite")
    /\ LET l == calls[c].local[1]
       IN  /\ users' = IF l.userId \in DOMAIN users
                       THEN [ users EXCEPT ![l.userId].aiRequestsUsed = l.newCount ]
                       ELSE users
           /\ calls' = [ calls EXCEPT ![c] =
                          Respond(calls[c], 200,
                                  << "success",
                                     Max(0, FREE_AI_REQUESTS - l.aiRequestsUsed - 1) >>) ]
    /\ UNCHANGED projects
    /\ ServerFrame

AiNext ==
    \/ \E c \in Calls, token \in Tokens, message \in {"", "hi"} :
          aiAssistant(c, token, message)
    \/ \E c \in Calls : aiGetUser(c)
    \/ \E c \in Calls, ok \in BOOLEAN : aiFetch(c, ok)
    \/ \E c \in Calls : aiIncrementRead(c)
    \/ \E c \in Calls : aiIncrementWrite(c)

AiSpec == ServerInit /\ [][AiNext]_vars

\* request bodies of PUT /api/projects/:id: a new address, a new owner
Updates == { [ address |-> "b" ], [ userId |-> "u2" ] }

ProjectIds == { "p1", "p9" }

\* authMiddleware, then the handler up to await storage.getProject
Authenticated(c, route, token, id, body) ==
    LET call == [ calls[c] EXCEPT !.route = route, !.token = token, !.id = id,
                                  !.body = body ]
        decoded == verifyToken(token)
    IN  IF decoded = "" THEN Respond(call, 401, << >>)
        ELSE [ call EXCEPT !.pc = "getProject",
                           !.local = << [ userId |-> decoded ] >> ]

\* storage.getProject resolves: 404 for no project, 403 for another user's,
\* else the handler goes on to the step next
OwnerCheck(call, next) ==
    IF call.id \notin DOMAIN projects THEN Respond(call, 404, << >>)
    ELSE IF projects[call.id].userId # call.local[1].userId
    THEN Respond(call, 403, << >>)
    ELSE [ call EXCEPT !.pc = next ]

\* .set({ ...data, updatedAt: new Date() })
Updated(project, data) ==
    [ f \in DOMAIN project |->
        IF f = "updatedAt" THEN project.updatedAt + 1
        ELSE IF f \in DOMAIN data THEN data[f]
        ELSE project[f] ]

putProject(c, token, id, updates) ==
    /\ Arrives(c)
    /\ calls' = [ calls EXCEPT ![c] =
                    Authenticated(c, "put-project", token, id, << updates >>) ]
    /\ UNCHANGED << users, projects >>
    /\ ServerFrame

putProjectGet(c) ==
    /\ At(c, "put-project", "getProject")
    /\ calls' = [ calls EXCEPT ![c] = OwnerCheck(calls[c], "updateProject") ]
    /\ UNCHANGED << users, projects >>
    /\ ServerFrame

\* storage.updateProject resolves; a project deleted meanwhile is answered
\* by success without a project
putProjectUpdate(c) ==
    /\ At(c, "put-project", "updateProject")
    /\ LET id == calls[c].id
       IN  IF id \in DOMAIN projects
           THEN /\ projects' = [ projects EXCEPT ![id] = Updated(@, calls[c].body[1]) ]
                /\ calls' = [ calls EXCEPT ![c] =
                                Respond(calls[c], 200, << projects'[id] >>) ]
           ELSE /\ projects' = projects
                /\ calls' = [ calls EXCEPT ![c] = Respond(calls[c], 200, << >>) ]
    /\ UNCHANGED users
    /\ ServerFrame

deleteProject(c, token, id) ==
    /\ Arrives(c)
    /\ calls' = [ calls EXCEPT ![c] =
                    Authenticated(c, "delete-project", token, id, << >>) ]
    /\ UNCHANGED << users, projects >>
    /\ ServerFrame

deleteProjectGet(c) ==
    /\ At(c, "delete-project", "getProject")
    /\ calls' = [ calls EXCEPT ![c] = OwnerCheck(calls[c], "deleteProject") ]
    /\ UNCHANGED << users, projects >>
    /\ ServerFrame

\* storage.deleteProject resolves
deleteProjectDelete(c) ==
    /\ At(c, "delete-project", "deleteProject")
    /\ projects' = [ i \in (DOMAIN projects) \ { calls[c].id } |-> projects[i] ]
    /\ calls' = [ calls EXCEPT ![c] = Respond(calls[c], 200, << >>) ]
    /\ UNCHANGED users
    /\ ServerFrame

ProjectsNext ==
    \/ \E c \in Calls, token \in Tokens, id \in ProjectIds, updates \in Updates :
          putProject(c, token, id, updates)
    \/ \E c \in Calls : putProjectGet(c)
    \/ \E c \in Calls : putProjectUpdate(c)
    \/ \E c \in Calls, token \in Tokens, id \in ProjectIds :
          deleteProject(c, token, id)
    \/ \E c \in Calls : deleteProjectGet(c)
    \/ \E c \in Calls : deleteProjectDelete(c)

ProjectsSpec == ServerInit /\ [][ProjectsNext]_vars

\* request bodies of POST /api/projects, one of them naming an owner
Creates == { [ address |-> "c" ], [ address |-> "c", userId |-> "u2" ] }

\* the id the database gives the project that request c inserts
NewId(c) == "n" \o ToString(c)

\* const { userId: _ignored, ...projectData } = req.body
WithoutUserId(body) == [ f \in (DOMAIN body) \ {"userId"} |-> body[f] ]

\* the row inserted for { ...projectData, userId }
Inserted(projectData, userId) ==
    [ userId |-> userId, address |-> projectData.address, updatedAt |-> 0 ]

postProject(c, token, body) ==
    /\ Arrives(c)
    /\ calls' = [ calls EXCEPT ![c] =
                    LET call == Authenticated(c, "post-project", token, "", << body >>)
                    IN  IF call.pc = "getProject"
                        THEN [ call EXCEPT !.pc = "createProject" ]
                        ELSE call ]
    /\ UNCHANGED << users, projects >>
    /\ ServerFrame

\* storage.createProject resolves
postProjectCreate(c) ==
    /\ At(c, "post-project", "createProject")
    /\ LET row == Inserted(WithoutUserId(calls[c].body[1]), calls[c].local[1].userId)
       IN  /\ projects' = [ i \in (DOMAIN projects) \cup { NewId(c) } |->
                              IF i = NewId(c) THEN row ELSE projects[i] ]
           /\ calls' = [ calls EXCEPT ![c] = Respond(calls[c], 200, << row >>) ]
    /\ UNCHANGED users
    /\ ServerFrame

OwnerNext ==
    \/ \E c \in Calls, token \in Tokens, body \in Creates : postProject(c, token, body)
    \/ \E c \in Calls : postProjectCreate(c)
    \/ \E c \in Calls, token \in Tokens, id \in ProjectIds, updates \in Updates :
          putProject(c, token, id, updates)
    \/ \E c \in Calls : putProjectGet(c)
    \/ \E c \in Calls : putProjectUpdate(c)

OwnerSpec == ServerInit /\ [][OwnerNext]_vars

----------------------------------------------------------------------------
(* Properties *)

Computed == result.kind = "breakdown"

\* the ten material line totals plus labor plus additional costs
LineSum(b) ==
    b.shingleTotal + b.wasteTotal + b.underlaymentTotal + b.iceShieldTotal
  + b.dripEdgeTotal + b.starterTotal + b.ridgeCapTotal + b.flashingTotal
  + b.ventTotal + b.nailTotal + b.labor + b.additional

Example1Input ==
    /\ roofSquares = RatI(20)
    /\ selectedMaterial = "three-tab"
    /\ getSelectedMaterialPrice(Screen) = 450
    /\ laborRate = << "5", "0" >>
    /\ laborHours = << "4", "0" >>
    /\ additionalCosts = << "2", "0", "0" >>

\* C1: for 20 squares of three-tab at 450 per square, labor 50 x 40 and 200 of
\* additional costs, the estimator yields 60 bundles at 93 (5580), 9 waste
\* bundles (837), underlayment 315, ice shield 255, drip edge 144, starter
\* 216, ridge cap 55, flashing 90, vents 350, nails 120, labor 2000 and a
\* grand total of 10162.
C1_Example1 ==
    (Computed /\ Example1Input) =>
        LET b == result.breakdown
        IN  /\ b.shingleBundles = RatI(60)
            /\ b.shingleCostPerBundle = 93
            /\ b.shingleTotal = 5580
            /\ b.wasteBundles = 9
            /\ b.wasteTotal = 837
            /\ b.underlaymentTotal = 315
            /\ b.iceShieldTotal = 255
            /\ b.dripEdgeTotal = 144
            /\ b.starterTotal = 216
            /\ b.ridgeCapTotal = 55
            /\ b.flashingTotal = 90
            /\ b.ventTotal = 350
            /\ b.nailTotal = 120
            /\ b.labor = 2000
            /\ result.total = 10162

C1_Witness == Computed /\ Example1Input

\* C2: the grand total of calculateTotal is the sum of the ten material line
\* totals of the breakdown plus the labor total plus the additional costs.
C2_TotalIsLineSum ==
    Computed => result.total = LineSum(result.breakdown)

C2_Witness ==
    /\ Computed
    /\ result.breakdown.labor > 0
    /\ result.breakdown.additional > 0
    /\ result.breakdown.shingleTotal > 0
    /\ result.breakdown.iceShieldTotal > result.breakdown.ridgeCapTotal

\* C4: of two inputs with roofSquares > 0 that differ only in roofSquares, the
\* one with the larger roofSquares never has the smaller grand total.
C4_Monotone ==
    [][ ( /\ Computed
          /\ Computed'
          /\ roofSquares.n > 0
          /\ ~RLeq(roofSquares', roofSquares)
          /\ UNCHANGED << selectedMaterial, materialPrices, laborRate,
                          laborHours, additionalCosts >> )
        => result'.total >= result.total ]_vars

\* a recomputation for a larger roof has run and came out dearer
C4_Witness ==
    /\ Computed
    /\ edits > 0
    /\ RLeq(RatI(2), roofSquares)
    /\ result.total > calculateTotal([Screen EXCEPT !.roofSquares = RatI(1)])

\* C5 (as claimed): for every roofSquares > 0 the unit counts of the breakdown
\* are integers, and shingleBundles is at least 1.
C5_NoFractionalUnits ==
    (Computed /\ roofSquares.n > 0) =>
        /\ RIsInt(result.breakdown.shingleBundles)
        /\ RLeq(RatI(1), result.breakdown.shingleBundles)
        /\ result.breakdown.underlaymentRolls \in Nat
        /\ result.breakdown.iceShieldRolls \in Nat
        /\ result.breakdown.dripEdgePieces \in Nat
        /\ result.breakdown.starterStripPieces \in Nat
        /\ result.breakdown.ridgeCapBundles \in Nat
        /\ result.breakdown.flashingPieces \in Nat
        /\ result.breakdown.ventCount \in Nat

\* C6 (as claimed): with roofSquares 0 or negative the computation fails with
\* InvalidInputError, and there is no breakdown and no total.
C6_ZeroSquaresRejected ==
    (result.kind # "none" /\ roofSquares.n <= 0) =>
        result.kind = "InvalidInputError"

\* C7 (as claimed): with a selected material that is not in the catalog the
\* computation fails with UnknownMaterialError and returns no breakdown.
C7_UnknownMaterialRejected ==
    (result.kind # "none" /\ selectedMaterial \notin MaterialIds) =>
        result.kind = "UnknownMaterialError"

IsNegative(t) == ~parseFloat(t).nan /\ parseFloat(t).val.n < 0

\* C8 (as claimed): a negative laborRate, laborHours, additionalCosts or price
\* makes the computation fail with InvalidInputError, and no breakdown with a
\* negative labor total is produced.
C8_NegativeInputRejected ==
    /\ ( /\ result.kind # "none"
         /\ \/ IsNegative(laborRate)
            \/ IsNegative(laborHours)
            \/ IsNegative(additionalCosts)
            \/ getSelectedMaterialPrice(Screen) < 0 )
       => result.kind = "InvalidInputError"
    /\ Computed => result.breakdown.labor >= 0

\* the inputs of the estimator were all supplied: no text was unparsable, the
\* material has a price, and roofSquares is not 0
InputsSupplied(c) ==
    /\ ~parseFloat(c.laborRate).nan
    /\ ~parseFloat(c.laborHours).nan
    /\ ~parseFloat(c.additionalCosts).nan
    /\ getSelectedMaterialPrice(c) # 0
    /\ ~RIsZero(c.roofSquares)

\* C9 (as claimed): whenever handlePreview persists a total, every input that
\* went into it was a supplied valid value: no 0 stands in for an unparsable
\* text or a missing price, and no 1 for a roofSquares of 0.
C9_NoSilentDefault ==
    [][ (pc = "submitting" /\ storage' # storage) => InputsSupplied(closure[1]) ]_vars

\* the estimator's input as a stored project record holds it
EstimateInput(p) ==
    [ selectedMaterial |-> p.selectedMaterial,
      materialPrices   |-> [k \in {p.selectedMaterial} |-> p.materialPricePerSquare],
      roofSquares      |-> p.roofSquares,
      laborRate        |-> toString(p.laborRate),
      laborHours       |-> toString(p.laborHours),
      additionalCosts  |-> toString(p.additionalCosts) ]

\* C10: a stored project that handlePreview has written carries a consistent
\* snapshot: its microBreakdown is what the estimator produces from the
\* roofSquares, selectedMaterial, materialPricePerSquare, laborRate, laborHours
\* and additionalCosts of the same record, and its estimateTotal is the sum of
\* the stored line totals plus labor plus additional.
C10_ConsistentSnapshot ==
    \A i \in 1..Len(storage) :
        storage[i].microBreakdown # << >> =>
            /\ storage[i].microBreakdown[1] = getMicroBreakdown(EstimateInput(storage[i]))
            /\ storage[i].estimateTotal = LineSum(storage[i].microBreakdown[1])

C10_Witness ==
    /\ pc = "preview"
    /\ LET p == storage[FindIndex(storage, projectId)]
       IN  /\ p.microBreakdown # << >>
           /\ p.selectedMaterial \in MaterialIds
           /\ p.materialPricePerSquare # BasePrice[p.selectedMaterial]
           /\ p.additionalCosts.d > 1
           /\ p.roofSquares = RatI(MaxSquares)

\* the labels of a sequence of rows, in order
Labels(rows) == [i \in 1..Len(rows) |-> rows[i].label]

\* C11 (as claimed): the PDF generator renders a stored breakdown with the
\* line-item labels of the estimate preview, in the same order, and each
\* amount is the one the preview shows for that label.
C11_PdfRowsAsPreview ==
    \A c \in Calls :
        (At(c, "generate-pdf", "done") /\ calls[c].status = 200
           /\ calls[c].body[1].microBreakdown # << >>)
        => /\ Labels(calls[c].reply[1]) = Labels(PreviewRows(calls[c].body[1]))
           /\ calls[c].reply[1] = PreviewRows(calls[c].body[1])

\* a request of user u to the AI assistant that got its answer
Succeeded(c, u) ==
    /\ At(c, "ai-assistant", "done")
    /\ calls[c].status = 200
    /\ verifyToken(calls[c].token) = u

\* C12 (as claimed): of the requests of a user without a subscription at
\* most one ever succeeds, under any interleaving.
C12_OneFreeRequest ==
    \A c, d \in Calls :
        (Succeeded(c, "u1") /\ Succeeded(d, "u1")) => c = d

\* the step is the database write of request c
Writes(c) ==
    /\ calls[c].pc \in {"updateProject", "deleteProject"}
    /\ calls'[c].pc = "done"

\* C13 (as claimed): a PUT or DELETE changes or removes a project only when
\* the authenticated user is that project's owner; without a valid token the
\* answer is 401 and for a missing project 404, and then nothing changes.
C13_OnlyOwnerChanges ==
    [][ /\ \A c \in Calls :
             (Writes(c) /\ projects' # projects)
             => /\ calls[c].id \in DOMAIN projects
                /\ projects[calls[c].id].userId = verifyToken(calls[c].token)
        /\ \A c \in Calls :
             (calls[c].pc # "done" /\ calls'[c].pc = "done"
                /\ calls'[c].status \in {401, 403, 404})
             => projects' = projects ]_vars

\* 100 times the distance of a shingle total from S x P x 0.62, scaled by
\* the denominator of S
OffIdeal(total, S, P) == Abs(100 * S.d * total - 62 * S.n * P)

\* what C14 says of one switch from "three-tab" to "architectural" at the
\* roofSquares S and the price per square P
ClassSwitch(S, P, threeTab, architectural) ==
    /\ threeTab.shingleBundles = RMul(S, RatI(3))
    /\ architectural.shingleBundles = RMul(S, RatI(4))
    /\ threeTab.shingleCostPerBundle = RoundDiv(P * 62, 300)
    /\ architectural.shingleCostPerBundle = RoundDiv(P * 62, 400)
    /\ 2 * OffIdeal(threeTab.shingleTotal, S, P) <= 100 * 3 * S.n
    /\ 2 * OffIdeal(architectural.shingleTotal, S, P) <= 100 * 4 * S.n

Switched == Computed /\ Computed' /\ selectedMaterial # selectedMaterial'

\* C14 (as claimed): for every roofSquares S > 0 and price P, selecting
\* "architectural" instead of "three-tab" takes shingleBundles from 3S to 4S
\* and costPerBundle from round(P x 0.62 / 3) to round(P x 0.62 / 4), and both
\* shingle totals are within shingleBundles x 0.5 of S x P x 0.62.
C14_ClassSwitch ==
    [][ (Switched /\ roofSquares.n > 0)
        => ClassSwitch(roofSquares,
                       SelectedMaterialPrice(selectedMaterial, materialPrices),
                       result.breakdown, result'.breakdown) ]_vars

\* C14 (amended): the same for every whole roofSquares S >= 1.
C14_ClassSwitchWhole ==
    [][ (Switched /\ roofSquares.n > 0 /\ RIsInt(roofSquares))
        => ClassSwitch(roofSquares,
                       SelectedMaterialPrice(selectedMaterial, materialPrices),
                       result.breakdown, result'.breakdown) ]_vars

\* the switch has run for a whole number of squares at a price whose share
\* per bundle is rounded
C14_Witness ==
    /\ Computed
    /\ edits = 1
    /\ selectedMaterial = "architectural"
    /\ RIsInt(roofSquares) /\ roofSquares.n >= 2
    /\ result.breakdown.shingleBundles = RMul(roofSquares, RatI(4))
    /\ OffIdeal(result.breakdown.shingleTotal, roofSquares,
                SelectedMaterialPrice(selectedMaterial, materialPrices)) > 0

\* the fields of the ten material line items: quantity, unit cost, total
LineItems ==
    { << "shingleBundles", "shingleCostPerBundle", "shingleTotal" >>,
      << "wasteBundles", "shingleCostPerBundle", "wasteTotal" >>,
      << "underlaymentRolls", "underlaymentCostPerRoll", "underlaymentTotal" >>,
      << "iceShieldRolls", "iceShieldCostPerRoll", "iceShieldTotal" >>,
      << "dripEdgePieces", "dripEdgeCostPerPiece", "dripEdgeTotal" >>,
      << "starterStripPieces", "starterCostPerPiece", "starterTotal" >>,
      << "ridgeCapBundles", "ridgeCapCostPerBundle", "ridgeCapTotal" >>,
      << "nailPounds", "nailCostPerPound", "nailTotal" >>,
      << "ventCount", "ventCostEach", "ventTotal" >>,
      << "flashingPieces", "flashingCostPerPiece", "flashingTotal" >> }

\* the quantity f of the breakdown b as a rational: shingleBundles and
\* nailPounds are products of roofSquares, the others are whole counts
Quantity(b, f) ==
    IF f \in {"shingleBundles", "nailPounds"} THEN b[f] ELSE RatI(b[f])

\* C15: every material line item keeps its quantity and its unit cost in
\* the breakdown, and its total is round(quantity x unit cost) of the kept
\* values; the waste line has the shingle cost per bundle for unit cost.
C15_LinesKeepQuantityAndCost ==
    Computed =>
        \A item \in LineItems :
            /\ { item[1], item[2], item[3] } \subseteq DOMAIN result.breakdown
            /\ result.breakdown[item[2]] \in Int
            /\ result.breakdown[item[3]] =
                  Round(RMul(Quantity(result.breakdown, item[1]),
                             RatI(result.breakdown[item[2]])))

\* a breakdown whose lines, but for the single bundle of ridge cap, have a
\* quantity of two or more and a total above the unit cost
C15_Witness ==
    /\ Computed
    /\ \A item \in LineItems :
          \/ item[1] = "ridgeCapBundles" /\ result.breakdown.ridgeCapTotal > 0
          \/ /\ RLeq(RatI(2), Quantity(result.breakdown, item[1]))
             /\ result.breakdown[item[3]] > result.breakdown[item[2]]

\* the price per square the computation uses
PriceUsed == OrZero(SelectedMaterialPrice(selectedMaterial, materialPrices))

\* C16 (as claimed): for every roofSquares S > 0 and price P,
\* shingleBundles = max(1, round(S x bundlesPerSquare)), costPerBundle =
\* round(P x 0.62 / bundlesPerSquare) and shingleTotal = round(shingleBundles
\* x costPerBundle).
C16_ShingleLine ==
    (Computed /\ roofSquares.n > 0) =>
        LET bps == BundlesPerSquare(selectedMaterial)
            b == result.breakdown
        IN  /\ b.shingleBundles = RatI(Max(1, Round(RMul(roofSquares, RatI(bps)))))
            /\ b.shingleCostPerBundle = RoundDiv(PriceUsed * 62, 100 * bps)
            /\ b.shingleTotal = Round(RMul(b.shingleBundles, RatI(b.shingleCostPerBundle)))

\* bundlesPerSquare as C17 states it
ClaimedBundlesPerSquare ==
    IF selectedMaterial \in {"architectural", "standing-seam"} THEN 4 ELSE 3

\* C17: bundlesPerSquare is 4 exactly for "architectural" and
\* "standing-seam" and 3 for every other material id, never 0: the waste
\* bundles are that many per waste square, and the cost per bundle is the
\* 62% share of the price divided by it.
C17_BundlesPerSquare ==
    Computed =>
        /\ ClaimedBundlesPerSquare # 0
        /\ result.breakdown.wasteBundles =
              CeilDiv(12 * SquaresOrOne(roofSquares).n,
                      100 * SquaresOrOne(roofSquares).d) * ClaimedBundlesPerSquare
        /\ result.breakdown.shingleCostPerBundle =
              RoundDiv(PriceUsed * 62, 100 * ClaimedBundlesPerSquare)

\* computed for standing seam on a roof with two waste squares, and for a
\* price whose share differs between three and four bundles
C17_Witness ==
    /\ Computed
    /\ selectedMaterial = "standing-seam"
    /\ result.breakdown.wasteBundles = 8
    /\ result.breakdown.shingleCostPerBundle # RoundDiv(PriceUsed * 62, 300)

\* C18: for roofSquares S > 0, wasteBundles = ceil(S x 0.12) x
\* bundlesPerSquare and wasteTotal = round(wasteBundles x costPerBundle) with
\* the cost per bundle of the shingle line; so wasteBundles is a multiple of
\* bundlesPerSquare and at least 12% of S x bundlesPerSquare.
C18_WasteOnSquares ==
    (Computed /\ roofSquares.n > 0) =>
        LET bps == BundlesPerSquare(selectedMaterial)
            b == result.breakdown
        IN  /\ b.wasteBundles = CeilDiv(12 * roofSquares.n, 100 * roofSquares.d) * bps
            /\ b.wasteTotal = Round(RatI(b.wasteBundles * b.shingleCostPerBundle))
            /\ b.wasteBundles % bps = 0
            /\ 100 * roofSquares.d * b.wasteBundles >= 12 * roofSquares.n * bps

\* two waste squares, more than 12% of the bundles, at a cost above zero
C18_Witness ==
    /\ Computed
    /\ roofSquares.n > 0
    /\ result.breakdown.wasteBundles = 2 * BundlesPerSquare(selectedMaterial)
    /\ 100 * roofSquares.d * result.breakdown.wasteBundles
          > 12 * roofSquares.n * BundlesPerSquare(selectedMaterial)
    /\ result.breakdown.wasteTotal > result.breakdown.shingleCostPerBundle
    /\ result.breakdown.shingleCostPerBundle > 0

\* C19: for roofSquares S > 0, underlaymentRolls = ceil(S / 3) at 45 per roll
\* and iceShieldRolls = ceil(S x 0.15) at 85 per roll, each total is
\* rolls x cost, and both roll counts are at least 1.
C19_RollMembranes ==
    (Computed /\ roofSquares.n > 0) =>
        LET b == result.breakdown
        IN  /\ b.underlaymentRolls = CeilDiv(roofSquares.n, 3 * roofSquares.d)
            /\ b.underlaymentCostPerRoll = 45
            /\ b.underlaymentTotal = b.underlaymentRolls * 45
            /\ b.iceShieldRolls = CeilDiv(15 * roofSquares.n, 100 * roofSquares.d)
            /\ b.iceShieldCostPerRoll = 85
            /\ b.iceShieldTotal = b.iceShieldRolls * 85
            /\ b.underlaymentRolls >= 1
            /\ b.iceShieldRolls >= 1

\* a fractional roof under one square still takes one roll of each, and a
\* larger roof takes several
C19_Witness ==
    /\ Computed
    /\ roofSquares.n > 0
    /\ \/ /\ roofSquares.n < roofSquares.d
          /\ result.breakdown.underlaymentRolls = 1
          /\ result.breakdown.iceShieldTotal = 85
       \/ /\ result.breakdown.underlaymentRolls > 3
          /\ result.breakdown.iceShieldRolls > 1

\* C20: for roofSquares S > 0, dripEdgePieces = ceil(sqrt(S x 100) x 4 / 10)
\* at 8 per piece, starterStripPieces = dripEdgePieces at 12 per piece, and
\* starterTotal x 2 = dripEdgeTotal x 3.
C20_PerimeterItems ==
    (Computed /\ roofSquares.n > 0) =>
        LET b == result.breakdown
            k == b.dripEdgePieces
        IN  /\ k >= 1
            /\ (10 * k) * (10 * k) * roofSquares.d >= 16 * 100 * roofSquares.n
            /\ (10 * (k - 1)) * (10 * (k - 1)) * roofSquares.d < 16 * 100 * roofSquares.n
            /\ b.dripEdgeCostPerPiece = 8
            /\ b.dripEdgeTotal = k * 8
            /\ b.starterStripPieces = k
            /\ b.starterCostPerPiece = 12
            /\ b.starterTotal = k * 12
            /\ b.starterTotal * 2 = b.dripEdgeTotal * 3

\* a roof whose perimeter is not a whole number of ten-foot pieces
C20_Witness ==
    /\ Computed
    /\ roofSquares.n > 0
    /\ result.breakdown.dripEdgePieces > 4
    /\ (10 * result.breakdown.dripEdgePieces) * (10 * result.breakdown.dripEdgePieces)
          * roofSquares.d > 16 * 100 * roofSquares.n
    /\ result.breakdown.starterTotal > 0

\* C21: for roofSquares S > 0, ridgeCapBundles = ceil(sqrt(S x 100) x 0.4 / 25)
\* at 55 per bundle; it is at least 1, and it is 1 for every S up to 39.
C21_RidgeCap ==
    (Computed /\ roofSquares.n > 0) =>
        LET b == result.breakdown
            k == b.ridgeCapBundles
        IN  /\ k >= 1
            /\ (125 * k) * (125 * k) * roofSquares.d >= 4 * 100 * roofSquares.n
            /\ (125 * (k - 1)) * (125 * (k - 1)) * roofSquares.d < 4 * 100 * roofSquares.n
            /\ b.ridgeCapCostPerBundle = 55
            /\ (roofSquares.n <= 39 * roofSquares.d => k = 1)

\* the largest whole roof with one bundle
C21_Witness ==
    /\ Computed
    /\ roofSquares = RatI(39)
    /\ result.breakdown.ridgeCapBundles = 1
    /\ result.breakdown.ridgeCapTotal = 55

\* past 39 squares the ridge takes a second bundle
C21_SecondBundle ==
    /\ Computed
    /\ roofSquares.n > 39 * roofSquares.d
    /\ result.breakdown.ridgeCapBundles = 2

\* C22: for roofSquares S > 0, flashingPieces = ceil(S x 0.3) at 15 per piece,
\* ventCount = ceil(S / 1.5) at 25 each, nailPounds = S x 2 without rounding
\* at 3 per pound, and nailTotal = round(nailPounds x 3).
C22_AreaAccessories ==
    (Computed /\ roofSquares.n > 0) =>
        LET b == result.breakdown
        IN  /\ b.flashingPieces = CeilDiv(3 * roofSquares.n, 10 * roofSquares.d)
            /\ b.flashingCostPerPiece = 15
            /\ b.ventCount = CeilDiv(2 * roofSquares.n, 3 * roofSquares.d)
            /\ b.ventCostEach = 25
            /\ b.nailPounds.n * roofSquares.d = 2 * roofSquares.n * b.nailPounds.d
            /\ b.nailCostPerPound = 3
            /\ b.nailTotal = RoundDiv(3 * b.nailPounds.n, b.nailPounds.d)

\* a roof in quarters of a square: fractional pounds of nails, a total that
\* is rounded, several vents and flashing pieces
C22_Witness ==
    /\ Computed
    /\ roofSquares.d = 4
    /\ result.breakdown.nailPounds.d = 2
    /\ result.breakdown.nailTotal * 2 > 3 * result.breakdown.nailPounds.n
    /\ result.breakdown.flashingPieces > 1
    /\ result.breakdown.ventCount > result.breakdown.flashingPieces

\* C23: labor = round(laborRate x laborHours), rounded once after the
\* multiplication, and additional = round(additional costs); a computation on
\* another roofSquares, material and price with the same texts gives the
\* same labor and additional.
C23_LaborAndAdditional ==
    [][ Computed' =>
          /\ result'.breakdown.labor =
                Round(RMul(ParseOrZero(laborRate'), ParseOrZero(laborHours')))
          /\ result'.breakdown.additional = Round(ParseOrZero(additionalCosts'))
          /\ Computed =>
                /\ result'.breakdown.labor = result.breakdown.labor
                /\ result'.breakdown.additional = result.breakdown.additional
      ]_vars

\* 12.5 x 12.5 = 156.25 gives 156 (not 13 x 13), 12.5 of additional costs
\* gives 13, on a second roof of another material
C23_Witness ==
    /\ Computed
    /\ edits = 1
    /\ selectedMaterial = "standing-seam"
    /\ roofSquares = RatI(MaxSquares)
    /\ laborRate = << "1", "2", ".", "5" >>
    /\ laborHours = << "1", "2", ".", "5" >>
    /\ additionalCosts = << "1", "2", ".", "5" >>
    /\ result.breakdown.labor = 156
    /\ result.breakdown.additional = 13

\* the project of this screen in local storage
StoredProject(stored) == stored[FindIndex(stored, projectId)]

\* C24: on the cost-input screen a material's price changes only when the
\* user adjusts it while that material is selected, when the stored price of
\* the stored (then selected) material is loaded, or when a new mount puts
\* every price back to base; and the shingle cost per bundle that
\* handlePreview saves is computed from the price held for the selected
\* material of that render, never from another material's price.
C24_EffectivePrice ==
    [][ /\ \A m \in MaterialIds :
              materialPrices'[m] # materialPrices[m] =>
                  \/ /\ m = selectedMaterial
                     /\ selectedMaterial' = selectedMaterial
                     /\ 2 * materialPrices'[m] >= BasePrice[m]
                     /\ materialPrices'[m] <= 2 * BasePrice[m]
                  \/ /\ ~loaded /\ loaded'
                     /\ m = selectedMaterial'
                     /\ m = StoredProject(storage).selectedMaterial
                     /\ materialPrices'[m] = StoredProject(storage).materialPricePerSquare
                  \/ /\ ~loaded'
                     /\ materialPrices' = InitialPrices
        /\ storage' # storage =>
              LET c == closure[1]
                  saved == StoredProject(storage')
                  bps == IF c.selectedMaterial \in {"architectural", "standing-seam"}
                         THEN 4 ELSE 3
              IN  /\ saved.selectedMaterial = c.selectedMaterial
                  /\ saved.materialPricePerSquare = c.materialPrices[c.selectedMaterial]
                  /\ saved.microBreakdown[1].shingleCostPerBundle =
                        RoundDiv(62 * c.materialPrices[c.selectedMaterial], 100 * bps)
      ]_vars

\* "three-tab" was adjusted and "architectural" then selected: the saved
\* estimate uses the base price of "architectural", 500 x 0.62 / 4 = 77.5
C24_Witness ==
    /\ pc = "preview"
    /\ materialPrices["three-tab"] # BasePrice["three-tab"]
    /\ StoredProject(storage).selectedMaterial = "architectural"
    /\ StoredProject(storage).materialPricePerSquare = 500
    /\ StoredProject(storage).microBreakdown # << >>
    /\ StoredProject(storage).microBreakdown[1].shingleCostPerBundle = 78

\* a step of the user on the screen
UserEdit == edits' = edits + 1

\* C25: on the cost-input screen every material's price is an integer within
\* [0.5 x, 2 x] of its own base price; a slider change modifies only the
\* selected material's price and selecting a material modifies no price.
C25_PricesInRange ==
    [][ /\ DOMAIN materialPrices' = MaterialIds
        /\ \A m \in MaterialIds :
              /\ materialPrices'[m] \in Int
              /\ 2 * materialPrices'[m] >= BasePrice[m]
              /\ materialPrices'[m] <= 2 * BasePrice[m]
        /\ (UserEdit /\ materialPrices' # materialPrices) =>
              /\ selectedMaterial' = selectedMaterial
              /\ \A m \in MaterialIds \ {selectedMaterial} :
                    materialPrices'[m] = materialPrices[m]
        /\ (UserEdit /\ selectedMaterial' # selectedMaterial) =>
              materialPrices' = materialPrices
      ]_vars

\* the slider at 899.5 gave "three-tab" 900, its upper limit, and another
\* material was then selected
C25_Witness ==
    /\ materialPrices["three-tab"] = 2 * BasePrice["three-tab"]
    /\ selectedMaterial = "metal-pbr"
    /\ materialPrices["metal-pbr"] = BasePrice["metal-pbr"]
    /\ edits = 2

\* the redirect effect of the preview screen: the project has no breakdown
\* or no positive estimate
Redirects(project) == project.microBreakdown = << >> \/ project.estimateTotal <= 0

\* C26 (as claimed): a project for which handlePreview has saved a breakdown
\* has an estimateTotal greater than 0, so the preview screen that
\* handlePreview navigates to does not redirect back to the cost input.
C26_NoRedirectLoop ==
    /\ \A i \in 1..Len(storage) :
          storage[i].microBreakdown # << >> => storage[i].estimateTotal > 0
    /\ pc = "preview" => ~Redirects(StoredProject(storage))

\* C28 (as claimed): the project a POST inserts has the authenticated user's
\* id as userId whatever the body says, and no later step changes the userId
\* of a project.
C28_OwnerNeverChanges ==
    [][ /\ \A c \in Calls :
              (NewId(c) \in (DOMAIN projects') \ (DOMAIN projects)) =>
                  projects'[NewId(c)].userId = verifyToken(calls[c].token)
        /\ \A id \in (DOMAIN projects) \cap (DOMAIN projects') :
              projects'[id].userId = projects[id].userId
      ]_vars

\* C29 (as claimed): every stored project of the new-project flow has an
\* integer roofSquares of at least 1, and no estimate that handlePreview
\* saves for it was computed from roofSquares 0 taken as 1.
C29_PositiveSquares ==
    /\ \A i \in 1..Len(storage) :
          /\ RIsInt(storage[i].roofSquares)
          /\ storage[i].roofSquares.n >= 1
    /\ closure # << >> => ~RIsZero(closure[1].roofSquares)

\* the sum of the legacy material fields
LegacySum(b) ==
    b.shingles + b.waste + b.underlayment + b.flashing + b.nails + b.venting
  + b.ridgeCap

\* C30: in every breakdown each legacy field equals its canonical total, and
\* the legacy material fields plus labor plus additional fall short of the
\* grand total by exactly iceShieldTotal + dripEdgeTotal + starterTotal.
C30_LegacyFields ==
    Computed =>
        LET b == result.breakdown
        IN  /\ b.shingles = b.shingleTotal
            /\ b.waste = b.wasteTotal
            /\ b.underlayment = b.underlaymentTotal
            /\ b.flashing = b.flashingTotal
            /\ b.nails = b.nailTotal
            /\ b.venting = b.ventTotal
            /\ b.ridgeCap = b.ridgeCapTotal
            /\ result.total - (LegacySum(b) + b.labor + b.additional)
                  = b.iceShieldTotal + b.dripEdgeTotal + b.starterTotal

\* a fractional roof whose nail and shingle totals are rounded, with the
\* three lines the legacy fields do not have above zero
C30_Witness ==
    /\ Computed
    /\ roofSquares.d = 4
    /\ result.breakdown.nails * 2 # 3 * result.breakdown.nailPounds.n
    /\ result.breakdown.shingles > 0
    /\ result.breakdown.iceShieldTotal > 85
    /\ result.total > LegacySum(result.breakdown) + 300

\* handleSave's write: the step from "saving" to the project list
Saves == pc = "saving" /\ pc' = "list"

\* C27: handleSave(finalize) changes only the status of the stored project
\* with the matching id, to "completed" when finalizing and "draft"
\* otherwise; every other field of it, every other stored project and the
\* screen's inputs are unchanged.
C27_SaveChangesStatusOnly ==
    [][ Saves =>
          /\ Len(storage') = Len(storage)
          /\ \A i \in 1..Len(storage) :
                IF i = FindIndex(storage, projectId)
                THEN /\ storage'[i].status =
                          IF closure[1].finalize THEN "completed" ELSE "draft"
                     /\ \A f \in (DOMAIN storage[i]) \ {"status"} :
                          storage'[i][f] = storage[i][f]
                     /\ DOMAIN storage'[i] = DOMAIN storage[i]
                ELSE storage'[i] = storage[i]
          /\ UNCHANGED screenVars
      ]_vars

\* the stored estimate was finalized, then saved again as a draft, with a
\* second stored project beside it
C27_Witness ==
    /\ pc = "list"
    /\ Len(storage) = 2
    /\ StoredProject(storage).status = "draft"
    /\ StoredProject(storage).microBreakdown # << >>
    /\ StoredProject(storage).estimateTotal > 0
    /\ Cardinality(DOMAIN projects) = 3

====
